---- MODULE Spec2Model ----
(***************************************************************************)
(* Model of src/src/core/tiktok_recorder.py: the TikTokRecorder            *)
(* constructor (country check, target resolution), run() and the three     *)
(* mode schedulers (manual_mode, automatic_mode, followers_mode) together  *)
(* with start_recording.  The Platform Client (TikTokAPI), ffmpeg, the     *)
(* converter and the uploader are external: every call into them is a      *)
(* nondeterministic choice over what the call can return or raise.         *)
(* An external cancellation (KeyboardInterrupt) is delivered while the     *)
(* program is blocked in such a call or in a sleep.                        *)
(***************************************************************************)
EXTENDS Integers, Sequences, FiniteSets, TLC

\* ---------------------------------------------------------------- bounds
NumFollowers == 2   \* accounts the follower list can name
MaxIters == 3       \* iterations of automatic_mode's loop that are explored
MaxSweeps == 2      \* iterations of followers_mode's loop that are explored
MaxProcs == 3       \* Process objects followers_mode creates that are explored
HistLen == 4        \* events the log of the main flow of control keeps

\* ---------------------------------------------------------------- values
NoneV == "None"
Empty == ""
Users == {"alice"}
Rooms == {"r1", "r2"}
Followers == 1..NumFollowers
Modes == {"MANUAL", "AUTOMATIC", "FOLLOWERS"}

\* Python truthiness of an optional string.
Falsy(x) == x \in {NoneV, Empty}

\* Exception classes the schedulers tell apart, and the cancellation signal
\* (a BaseException that no "except Exception" clause catches).
ExcKinds == {"UserLiveError", "LiveNotFound", "ConnectionError", "Exception"}
KI == "KeyboardInterrupt"
Raise == ExcKinds \cup {KI}

\* The follower list the Platform Client returns: the followed accounts, each
\* named once, in any order.
FollowerLists ==
    {s \in UNION {[1..n -> Followers] : n \in 0..NumFollowers} :
        \A i, j \in DOMAIN s : i # j => s[i] # s[j]}

VARIABLES
    mode,               \* self.mode
    supplied,           \* which constructor argument named the target
    url, user, room_id, \* self.url, self.user, self.room_id
    use_telegram,       \* self.use_telegram
    country,            \* what is_country_blacklisted() did at startup
    pc,                 \* position of the main flow of control
    exc,                \* exception in flight to a scheduler's except clauses
    error,              \* exception that left the constructor or run()
    hist,               \* Manual/Automatic: the last HistLen polls, sessions, sleeps
    counts,             \* Manual/Automatic: how many of each there have been
    last_session,       \* what the last start_recording call of the main flow did
    iters,              \* iterations of automatic_mode's loop begun
    followers,          \* followers_mode: the list being swept
    idx,                \* followers_mode: position of the for loop
    active_recordings,  \* followers_mode: follower -> Process (index in procs)
    procs,              \* every Process created, in creation order
    sweeps,             \* iterations of followers_mode's loop begun
    sweepLog,           \* what happened to each follower in the current sweep
    doneAtFetch,        \* registered Processes already finished when the sweep began
    procsAtFetch,       \* number of Processes created before the sweep began
    lastSleep,          \* followers_mode: the sleep that ended the last loop iteration
    current_date        \* "used": a Session of the main flow has already put the
                        \* current second into its output path; "new": none has

vars == <<mode, supplied, url, user, room_id, use_telegram, country, pc, exc, error,
          hist, counts, last_session, iters, followers, idx, active_recordings, procs,
          sweeps, sweepLog, doneAtFetch, procsAtFetch, lastSleep, current_date>>

cfgVars == <<mode, supplied, url, use_telegram>>
mainVars == <<user, room_id, hist, counts, last_session, iters>>
folVars == <<followers, idx, active_recordings, procs, sweeps, sweepLog,
             doneAtFetch, procsAtFetch, lastSleep>>

NoSession == [outcome |-> "none", raised |-> "none",
              conversion |-> "none", delivery |-> "none"]

Ev(e, a) == [ev |-> e, arg |-> a]

\* The log with event e added, cut to its last HistLen events.
Logged(h, e) ==
    LET s == Append(h, e) IN IF Len(s) > HistLen THEN Tail(s) ELSE s

NoCounts == [live_true |-> 0, live_false |-> 0, sessions |-> 0, interval_sleeps |-> 0]

\* ------------------------------------------------------------ constructor
Init ==
    /\ mode \in Modes
    /\ supplied \in (IF mode = "FOLLOWERS" THEN {"none", "room_id"}
                     ELSE {"url", "user", "room_id"})
    /\ url = IF supplied = "url" THEN "u" ELSE NoneV
    /\ user = IF supplied = "user" THEN "alice" ELSE NoneV
    /\ room_id = IF supplied = "room_id" THEN "r1" ELSE NoneV
    /\ use_telegram \in BOOLEAN
    /\ country = "unasked"
    /\ pc = "construct"
    /\ exc = "none"
    /\ error = "none"
    /\ hist = <<>>
    /\ counts = NoCounts
    /\ last_session = NoSession
    /\ iters = 0
    /\ followers = <<>>
    /\ idx = 1
    /\ active_recordings = <<>>
    /\ procs = <<>>
    /\ sweeps = 0
    /\ sweepLog = <<>>
    /\ doneAtFetch = {}
    /\ procsAtFetch = 0
    /\ lastSleep = "none"
    /\ current_date = "new"

\* check_country_blacklisted with the Automatic branch of lines 243-244 lost.
check_country_blacklisted_no_auto(q, rid, m) ==
    LET is_blacklisted == IF q = "raises" THEN FALSE ELSE q = "true" IN
    IF q = KI THEN KI
    ELSE IF ~is_blacklisted THEN "return"
    ELSE IF rid = NoneV THEN "COUNTRY_BLACKLISTED"
    ELSE IF m = "FOLLOWERS" THEN "COUNTRY_BLACKLISTED_FOLLOWERS_MODE"
    ELSE "return"

\* check_country_blacklisted with the except clause of lines 232-235 taking a
\* failed query for a blocked country.
check_country_blacklisted_fail_blocks(q, rid, m) ==
    LET is_blacklisted == q \in {"raises", "true"} IN
    IF q = KI THEN KI
    ELSE IF ~is_blacklisted THEN "return"
    ELSE IF rid = NoneV THEN "COUNTRY_BLACKLISTED"
    ELSE IF m = "AUTOMATIC" THEN "COUNTRY_BLACKLISTED_AUTO_MODE"
    ELSE IF m = "FOLLOWERS" THEN "COUNTRY_BLACKLISTED_FOLLOWERS_MODE"
    ELSE "return"

\* check_country_blacklisted: q is what is_country_blacklisted() did
\* ("true", "false", "raises" for an Exception, KI); the result is "return"
\* or the TikTokError the method raises.
check_country_blacklisted(q, rid, m) ==
    LET is_blacklisted == IF q = "raises" THEN FALSE ELSE q = "true" IN
    IF q = KI THEN KI
    ELSE IF ~is_blacklisted THEN "return"
    ELSE IF rid = NoneV THEN "COUNTRY_BLACKLISTED"
    ELSE IF m = "AUTOMATIC" THEN "COUNTRY_BLACKLISTED_AUTO_MODE"
    ELSE IF m = "FOLLOWERS" THEN "COUNTRY_BLACKLISTED_FOLLOWERS_MODE"
    ELSE "return"

\* __init__, lines 75-76: the country check, before any resolution.
init_check_country ==
    /\ pc = "construct"
    /\ \E q \in {"true", "false", "raises", KI} :
        LET r == check_country_blacklisted(q, room_id, mode) IN
        /\ country' = q
        /\ IF r = "return"
           THEN pc' = "resolve" /\ error' = error
           ELSE pc' = "aborted" /\ error' = r
    /\ UNCHANGED <<cfgVars, current_date, mainVars, folVars, exc>>

\* __init__, lines 84-96: the (user, room_id) pairs resolution can end with,
\* each with the exception that ended it early ("none" when it completed).
ResolveTarget(u0, usr0, rid0) ==
    LET St(u, r, e) == [user |-> u, room_id |-> r, error |-> e]
        S1 == IF u0 # NoneV
              THEN {St(u, r, "none") : u \in Users \cup {NoneV}, r \in Rooms \cup {NoneV}}
                   \cup {St(usr0, rid0, k) : k \in Raise}
              ELSE {St(usr0, rid0, "none")}
        S2 == UNION {IF s.error # "none" \/ ~Falsy(s.user) THEN {s}
                     ELSE {St(u, s.room_id, "none") : u \in Users}
                          \cup {St(s.user, s.room_id, k) : k \in Raise} : s \in S1}
        S3 == UNION {IF s.error # "none" \/ ~Falsy(s.room_id) THEN {s}
                     ELSE {St(s.user, r, "none") : r \in Rooms \cup {NoneV, Empty}}
                          \cup {St(s.user, s.room_id, k) : k \in Raise} : s \in S2}
        S4 == UNION {IF s.error # "none" \/ Falsy(s.room_id) THEN {s}
                     ELSE {s} \cup {St(s.user, s.room_id, k) : k \in Raise} : s \in S3}
    IN S4

\* __init__, lines 78-100: sec_uid in Followers mode, target resolution otherwise.
init_resolve ==
    /\ pc = "resolve"
    /\ IF mode = "FOLLOWERS"
       THEN /\ \E s \in {"sec_uid", NoneV} \cup Raise :
                IF s = "sec_uid" THEN pc' = "ready" /\ error' = error
                ELSE /\ pc' = "aborted"
                     /\ error' = IF s = NoneV THEN "TikTokRecorderError" ELSE s
            /\ UNCHANGED <<user, room_id>>
       ELSE \E s \in ResolveTarget(url, user, room_id) :
                /\ user' = s.user
                /\ room_id' = s.room_id
                /\ IF s.error = "none" THEN pc' = "ready" /\ error' = error
                   ELSE pc' = "aborted" /\ error' = s.error
    /\ UNCHANGED <<cfgVars, current_date, country, exc, hist, counts, last_session, iters, folVars>>

\* run, lines 102-108.
run ==
    /\ pc = "ready"
    /\ pc' = CASE mode = "MANUAL" -> "manual_mode"
               [] mode = "AUTOMATIC" -> "auto_loop"
               [] mode = "FOLLOWERS" -> "fol_loop"
    /\ hist' = Logged(hist, Ev("run", mode))
    /\ UNCHANGED <<cfgVars, current_date, user, room_id, counts, last_session, iters, folVars,
                   country, exc, error>>

\* An exception leaving a call made by manual_mode / start_recording: it ends
\* run() in Manual mode and reaches automatic_mode's except clauses otherwise.
Propagate(k) ==
    IF mode = "MANUAL" \/ k = KI
    THEN /\ pc' = IF k = KI THEN "cancelled" ELSE "failed"
         /\ error' = k
         /\ exc' = exc
    ELSE /\ pc' = "auto_except"
         /\ exc' = k
         /\ error' = error

\* ---------------------------------------------------------- start_recording
LiveUrlOutcomes == {"url", NoneV} \cup Raise
FfmpegOutcomes == {"ok", "ConnectionClosed", "TransientNetworkError", "Error", KI}
PostOutcomes == {"ok", "failed"}

\* What a failed try body of start_recording raises to the caller of
\* start_recording, given the except clause that caught it (lines 216-224):
\* every clause logs, notifies and falls through, so nothing is raised.
start_recording_raises(clause) == "none"

\* start_recording with the inner try of lines 204-208 lost: a failed
\* conversion reaches the except clause of line 222.
start_recording_conversion_unguarded(lu, ff, cv, up, tg) ==
    LET thrown == IF lu \in Raise THEN lu
                  ELSE IF Falsy(lu) THEN "LiveNotFound"
                  ELSE IF ff = KI THEN KI
                  ELSE IF ff # "ok" THEN "Exception"
                  ELSE IF cv = "failed" THEN "Exception"
                  ELSE "none"
        outcome == CASE thrown = "none" -> "success"
                     [] thrown = KI -> "Cancelled"
                     [] thrown = "LiveNotFound" -> "LiveStreamUnavailable"
                     [] lu = "ConnectionError" -> "ConnectionClosed"
                     [] lu \in Raise -> "UnexpectedError"
                     [] ff \in {"Error", "ok"} -> "UnexpectedError"
                     [] OTHER -> ff
    IN [outcome |-> outcome,
        raised |-> "none",
        conversion |-> IF lu = "url" /\ ff = "ok" THEN cv ELSE "none",
        delivery |-> IF thrown # "none" THEN "none"
                     ELSE IF tg THEN up ELSE "skipped"]

\* start_recording, lines 176-224.  lu: what get_live_url did (a URL, None or
\* an exception); ff: how ffmpeg ended ("ok", the cause of a non-zero exit, or
\* the cancellation signal); cv, up: conversion and upload; tg: use_telegram.
start_recording(lu, ff, cv, up, tg) ==
    LET thrown == IF lu \in Raise THEN lu                  \* line 181
                  ELSE IF Falsy(lu) THEN "LiveNotFound"    \* lines 182-183
                  ELSE IF ff = KI THEN KI                  \* lines 194/198
                  ELSE IF ff # "ok" THEN "Exception"       \* CalledProcessError
                  ELSE "none"
        clause == CASE thrown = "none" -> "none"
                    [] thrown = KI -> "KeyboardInterrupt"    \* line 216
                    [] thrown = "LiveNotFound" -> "LiveNotFound"  \* line 219
                    [] OTHER -> "Exception"                  \* line 222
        outcome == CASE thrown = "none" -> "success"
                     [] thrown = KI -> "Cancelled"
                     [] thrown = "LiveNotFound" -> "LiveStreamUnavailable"
                     [] lu = "ConnectionError" -> "ConnectionClosed"
                     [] lu \in Raise -> "UnexpectedError"
                     [] ff = "Error" -> "UnexpectedError"
                     [] OTHER -> ff
    IN [outcome |-> outcome,
        raised |-> IF clause = "none" THEN "none" ELSE start_recording_raises(clause),
        conversion |-> IF thrown = "none" THEN cv ELSE "none",          \* lines 204-208
        delivery |-> IF thrown # "none" THEN "none"
                     ELSE IF tg THEN up ELSE "skipped"]                 \* lines 210-214

\* -------------------------------------------------------------- manual_mode
\* manual_mode without the liveness guard of lines 111-112.
manual_decision_unguarded(alive) == "start_recording"

\* manual_mode, lines 111-113, given what is_room_alive returned.
manual_decision(alive) == IF ~alive THEN "UserLiveError" ELSE "start_recording"

\* manual_mode, lines 110-112: the liveness check.
manual_mode ==
    /\ pc = "manual_mode"
    /\ \E a \in {"true", "false"} \cup Raise :
        IF a \in Raise
        THEN /\ hist' = Logged(hist, Ev("raise", a))
             /\ counts' = counts
             /\ Propagate(a)
        ELSE /\ hist' = Logged(hist, Ev("live", a))
             /\ counts' = IF a = "true"
                          THEN [counts EXCEPT !.live_true = @ + 1]
                          ELSE [counts EXCEPT !.live_false = @ + 1]
             /\ LET d == manual_decision(a = "true") IN
                IF d = "start_recording"
                THEN pc' = "start_recording" /\ UNCHANGED <<exc, error>>
                ELSE Propagate(d)
    /\ UNCHANGED <<cfgVars, current_date, country, user, room_id, last_session, iters, folVars>>

\* manual_mode, line 113: the Session, run by the main flow of control.
\* Lines 185-186 build the output path from the user and the current second
\* once get_live_url has returned a url.
manual_start_recording ==
    /\ pc = "start_recording"
    /\ \E lu \in LiveUrlOutcomes, ff \in FfmpegOutcomes, cv \in PostOutcomes,
          up \in PostOutcomes :
        LET s == start_recording(lu, ff, cv, up, use_telegram) IN
        /\ last_session' = s
        /\ current_date' = IF lu = "url" THEN "used" ELSE current_date
        /\ hist' = Logged(hist, Ev("session", s.outcome))
        /\ counts' = [counts EXCEPT !.sessions = @ + 1]
        /\ IF s.raised = "none"
           THEN /\ pc' = IF mode = "MANUAL" THEN "done" ELSE "auto_loop"
                /\ UNCHANGED <<exc, error>>
           ELSE Propagate(s.raised)
    /\ UNCHANGED <<cfgVars, country, user, room_id, iters, folVars>>

\* The wall clock reaches the next second while automatic_mode runs: the
\* time.strftime of line 185 gives a value no output path carries yet.
second_passes ==
    /\ mode = "AUTOMATIC"
    /\ pc \in {"auto_loop", "manual_mode", "start_recording", "auto_except"}
    /\ current_date = "used"
    /\ current_date' = "new"
    /\ UNCHANGED <<cfgVars, country, mainVars, folVars, pc, exc, error>>

\* ----------------------------------------------------------- automatic_mode
\* automatic_mode, line 118: re-resolve the room id at the top of the loop.
automatic_resolve ==
    /\ pc = "auto_loop"
    /\ iters < MaxIters
    /\ iters' = iters + 1
    /\ \E r \in Rooms \cup {NoneV, Empty} \cup Raise :
        IF r \in Raise
        THEN /\ hist' = Logged(hist, Ev("raise", r))
             /\ room_id' = room_id
             /\ Propagate(r)
        ELSE /\ hist' = Logged(hist, Ev("resolve", "returned"))
             /\ room_id' = r
             /\ pc' = "manual_mode"
             /\ UNCHANGED <<exc, error>>
    /\ UNCHANGED <<cfgVars, current_date, country, user, counts, last_session, folVars>>

\* automatic_mode with the sleep of line 123 lost.
automatic_backoff_no_sleep(e) ==
    CASE e = "UserLiveError" -> "immediate"
      [] e = "LiveNotFound" -> "interval"
      [] e = "ConnectionError" -> "cooldown"
      [] OTHER -> "immediate"

\* automatic_mode with the clause of lines 131-132 sleeping like the others.
automatic_backoff_always_sleeps(e) ==
    CASE e = "UserLiveError" -> "interval"
      [] e = "LiveNotFound" -> "interval"
      [] e = "ConnectionError" -> "cooldown"
      [] OTHER -> "interval"

\* automatic_mode, lines 120-132: the sleep each except clause takes.
automatic_backoff(e) ==
    CASE e = "UserLiveError" -> "interval"
      [] e = "LiveNotFound" -> "interval"
      [] e = "ConnectionError" -> "cooldown"
      [] OTHER -> "immediate"

\* automatic_mode, lines 120-132: handle the exception, sleep, loop again.
automatic_except ==
    /\ pc = "auto_except"
    /\ LET b == automatic_backoff(exc) IN
        \/ /\ hist' = Logged(hist, Ev("retry", b))
           /\ counts' = IF b = "interval"
                        THEN [counts EXCEPT !.interval_sleeps = @ + 1]
                        ELSE counts
           /\ current_date' = IF b = "immediate" THEN current_date ELSE "new"
           /\ pc' = "auto_loop"
           /\ error' = error
        \/ /\ b # "immediate"          \* cancelled during time.sleep
           /\ UNCHANGED <<hist, counts, current_date>>
           /\ pc' = "cancelled"
           /\ error' = KI
    /\ exc' = "none"
    /\ UNCHANGED <<cfgVars, country, user, room_id, last_session, iters, folVars>>

\* ----------------------------------------------------------- followers_mode
\* followers_mode taking every registered Process for a finished one.
is_alive_never(p) == FALSE

\* Process.is_alive() of the Process at index p.
is_alive(p) == procs[p].state = "running"

\* del active_recordings[follower], line 145.
del_entry(reg, f) == [x \in DOMAIN reg \ {f} |-> reg[x]]

\* followers_mode with the registration of line 157 lost.
set_entry_lost(reg, f, p) == reg

\* active_recordings[follower] = process, line 157.
set_entry(reg, f, p) == [x \in DOMAIN reg \cup {f} |-> IF x = f THEN p ELSE reg[x]]

\* followers_mode, lines 166-174: the sleep each except clause takes.
followers_backoff(e) ==
    CASE e = "UserLiveError" -> "interval"
      [] e = "ConnectionError" -> "cooldown"
      [] OTHER -> "immediate"

\* followers_mode, line 138: fetch the follower list at the top of the loop.
followers_fetch ==
    /\ pc = "fol_loop"
    /\ sweeps < MaxSweeps
    /\ sweeps' = sweeps + 1
    /\ sweepLog' = <<>>
    /\ procsAtFetch' = Len(procs)
    /\ lastSleep' = "none"
    /\ \/ \E fl \in FollowerLists :
            /\ followers' = fl
            /\ idx' = 1
            /\ doneAtFetch' = {active_recordings[f] : f \in
                                 {g \in DOMAIN active_recordings :
                                     ~is_alive(active_recordings[g])}}
            /\ pc' = "fol_sweep"
            /\ UNCHANGED <<exc, error>>
       \/ \E k \in Raise :
            /\ UNCHANGED <<followers, idx>>
            /\ doneAtFetch' = {}
            /\ IF k = KI
               THEN pc' = "cancelled" /\ error' = KI /\ exc' = exc
               ELSE pc' = "fol_except" /\ exc' = k /\ error' = error
    /\ UNCHANGED <<cfgVars, current_date, country, mainVars, active_recordings, procs>>

\* followers_mode with "not self.tiktok.is_room_alive(room_id)" of line 151
\* lost: the result of the liveness check is ignored.
follower_step_unchecked(r, a, st, sl) ==
    IF r = KI THEN "cancelled"
    ELSE IF r \in Raise THEN "error"
    ELSE IF Falsy(r) THEN "not_live"
    ELSE IF a = KI THEN "cancelled"
    ELSE IF a \in Raise THEN "error"
    ELSE IF st # "ok" THEN "error"
    ELSE IF sl = KI THEN "started_cancelled"
    ELSE "started"

\* followers_mode, lines 149-161, for a follower without a running Process:
\* r is what get_room_id_from_user did, a what is_room_alive did, st what
\* Process.start() did and sl how the pacing sleep ended.
follower_step(r, a, st, sl) ==
    IF r = KI THEN "cancelled"
    ELSE IF r \in Raise THEN "error"
    ELSE IF Falsy(r) THEN "not_live"
    ELSE IF a = KI THEN "cancelled"
    ELSE IF a \in Raise THEN "error"
    ELSE IF a = "false" THEN "not_live"
    ELSE IF st # "ok" THEN "error"
    ELSE IF sl = KI THEN "started_cancelled"
    ELSE "started"

\* Every way lines 149-161 can go, each with whether is_room_alive returned
\* true for a room id that get_room_id_from_user returned.
FollowerSteps ==
    {[res |-> follower_step(r, a, st, sl),
      verified |-> (r \notin Raise /\ ~Falsy(r) /\ a = "true")] :
        r \in Rooms \cup {NoneV, Empty} \cup Raise, a \in {"true", "false"} \cup Raise,
        st \in {"ok", "Exception"}, sl \in {"ok", KI}}

\* followers_mode with the inner try of lines 149-161 lost: an exception raised
\* for one follower leaves the for loop.
follower_continues_uncaught(res) == res \notin {"cancelled", "started_cancelled", "error"}

\* followers_mode with a bare except in line 159: the cancellation signal is
\* caught like any exception and the for loop goes on.
follower_continues_catch_all(res) == TRUE

\* followers_mode, lines 159-161: "except Exception" ends the iteration of the
\* follower and the for loop goes on; the cancellation signal is no Exception
\* and leaves followers_mode.
follower_continues(res) == res \notin {"cancelled", "started_cancelled"}

\* followers_mode joining every Process it has started.
awaited_all == 1..Len(procs)

\* followers_mode, lines 141-157: the Processes the sweep loop waits for.  It
\* polls a Process with is_alive() and starts it with start(); it joins none.
awaited == {}

\* followers_mode, lines 139-161: one iteration of the for loop.
followers_follower ==
    /\ pc = "fol_sweep"
    /\ idx <= Len(followers)
    /\ \A p \in awaited : procs[p].state = "finished"
    /\ LET f == followers[idx]
           registered == f \in DOMAIN active_recordings
           running == registered /\ is_alive(active_recordings[f])
           reg1 == IF registered /\ ~running THEN del_entry(active_recordings, f)
                   ELSE active_recordings
           Log(res) == Append(sweepLog, [follower |-> f, res |-> res])
       IN
       IF running
       THEN /\ sweepLog' = Log("skipped")
            /\ idx' = idx + 1
            /\ UNCHANGED <<active_recordings, procs, pc, error>>
       ELSE \E step \in FollowerSteps :
            LET res == step.res
                spawned == res \in {"started", "started_cancelled"}
                stop == ~follower_continues(res)
            IN
            /\ spawned => Len(procs) < MaxProcs
            /\ sweepLog' = Log(res)
            /\ procs' = IF spawned
                        THEN Append(procs, [user |-> f, state |-> "running",
                                            verified |-> step.verified])
                        ELSE procs
            /\ active_recordings' = IF spawned THEN set_entry(reg1, f, Len(procs) + 1)
                                    ELSE reg1
            /\ idx' = IF stop THEN idx ELSE idx + 1
            /\ pc' = IF stop THEN "cancelled" ELSE pc
            /\ error' = IF stop THEN KI ELSE error
    /\ UNCHANGED <<cfgVars, current_date, country, mainVars, exc, followers, sweeps, doneAtFetch,
                   procsAtFetch, lastSleep>>

\* followers_mode, lines 163-165: the sleep after the for loop.  The list, the
\* loop position and the sweep's bookkeeping are dead once the for loop is
\* over (line 138 assigns the list anew before its next use): they are cleared.
followers_sleep ==
    /\ pc = "fol_sweep"
    /\ idx > Len(followers)
    /\ \A p \in awaited : procs[p].state = "finished"
    /\ \/ pc' = "fol_loop" /\ lastSleep' = "interval" /\ error' = error
       \/ pc' = "cancelled" /\ lastSleep' = lastSleep /\ error' = KI
    /\ followers' = <<>>
    /\ idx' = 1
    /\ sweepLog' = <<>>
    /\ doneAtFetch' = {}
    /\ UNCHANGED <<cfgVars, current_date, country, mainVars, exc, active_recordings,
                   procs, sweeps, procsAtFetch>>

\* followers_mode, lines 166-174: handle a failed fetch, sleep, loop again.
followers_except ==
    /\ pc = "fol_except"
    /\ LET b == followers_backoff(exc) IN
        \/ pc' = "fol_loop" /\ lastSleep' = b /\ error' = error
        \/ b # "immediate" /\ pc' = "cancelled" /\ lastSleep' = lastSleep /\ error' = KI
    /\ exc' = "none"
    /\ UNCHANGED <<cfgVars, current_date, country, mainVars, followers, idx, active_recordings,
                   procs, sweeps, sweepLog, doneAtFetch, procsAtFetch>>

\* A follower's Process (target=self.start_recording, line 155) comes to its end.
process_exit ==
    /\ \E p \in 1..Len(procs) :
        /\ procs[p].state = "running"
        /\ procs' = [procs EXCEPT ![p].state = "finished"]
    /\ UNCHANGED <<cfgVars, current_date, country, mainVars, pc, exc, error, followers, idx,
                   active_recordings, sweeps, sweepLog, doneAtFetch, procsAtFetch,
                   lastSleep>>

\* ------------------------------------------------------------ specification
Next ==
    \/ init_check_country
    \/ init_resolve
    \/ run
    \/ manual_mode
    \/ manual_start_recording
    \/ automatic_resolve
    \/ automatic_except
    \/ second_passes
    \/ followers_fetch
    \/ followers_follower
    \/ followers_sleep
    \/ followers_except
    \/ process_exit

Spec == Init /\ [][Next]_vars

\* Automatic mode alone, with the loop running on: a call into the Platform
\* Client returns or raises, a Session comes to an end and a sleep ends.
InitAutomatic == Init /\ mode = "AUTOMATIC"

NextAutomatic ==
    \/ init_check_country
    \/ init_resolve
    \/ run
    \/ manual_mode
    \/ manual_start_recording
    \/ automatic_resolve
    \/ automatic_except
    \/ second_passes

FairAutomatic ==
    /\ InitAutomatic
    /\ [][NextAutomatic]_vars
    /\ WF_vars(manual_mode)
    /\ WF_vars(manual_start_recording)
    /\ WF_vars(automatic_resolve)
    /\ WF_vars(automatic_except)

\* Followers mode alone, with the sweep loop running on: a call into the
\* Platform Client returns or raises and a sleep ends, so each step of the
\* loop that can be taken is taken.  Nothing is assumed of the Processes: a
\* Session may run for ever.
InitFollowers == Init /\ mode = "FOLLOWERS"

NextFollowers ==
    \/ init_check_country
    \/ init_resolve
    \/ run
    \/ followers_fetch
    \/ followers_follower
    \/ followers_sleep
    \/ followers_except
    \/ process_exit

FairFollowers ==
    /\ InitFollowers
    /\ [][NextFollowers]_vars
    /\ WF_vars(followers_fetch)
    /\ WF_vars(followers_follower)
    /\ WF_vars(followers_sleep)
    /\ WF_vars(followers_except)

\* ------------------------------------------------------------------- types
TypeOK ==
    /\ mode \in Modes
    /\ pc \in {"construct", "resolve", "aborted", "ready", "manual_mode",
               "start_recording", "done", "failed", "cancelled", "auto_loop",
               "auto_except", "fol_loop", "fol_sweep", "fol_except"}
    /\ exc \in ExcKinds \cup {"none"}
    /\ iters \in 0..MaxIters
    /\ current_date \in {"new", "used"}
    /\ sweeps \in 0..MaxSweeps
    /\ Len(procs) <= MaxProcs
    /\ \A f \in DOMAIN active_recordings : active_recordings[f] \in 1..Len(procs)

\* ================================================================== claims
Finished == pc \in {"done", "failed", "cancelled"}
SweepOver == pc = "fol_sweep" /\ idx > Len(followers)
Pairs == 1..(Len(hist) - 1)
Last == hist[Len(hist)]

\* Processes of follower f that are running.
RunningFor(f) == {p \in 1..Len(procs) : procs[p].user = f /\ procs[p].state = "running"}

\* Processes of follower f created in the current sweep.
StartedFor(f) == {p \in (procsAtFetch + 1)..Len(procs) : procs[p].user = f}

\* C1: in Followers mode, in every reachable state, at most one Session unit
\* is running for any given follower.
C1_OneSessionPerFollower ==
    mode = "FOLLOWERS" => \A f \in Followers : Cardinality(RunningFor(f)) <= 1

\* C1 witness: in a second sweep, a follower whose first unit has finished has
\* a second unit running.
C1_Witness ==
    /\ mode = "FOLLOWERS"
    /\ sweeps = 2
    /\ \E p, q \in 1..Len(procs) :
        /\ procs[p].user = procs[q].user
        /\ procs[p].state = "finished"
        /\ procs[q].state = "running"
        /\ active_recordings[procs[q].user] = q

\* C2: in Automatic mode a false liveness result is followed by the
\* automatic_interval sleep before anything else, a Session is attempted right
\* after each true result and only then, and the next poll comes only after
\* the sleep: there are as many Sessions as true results.
C2_PollUntilLive ==
    mode = "AUTOMATIC" =>
        /\ \A i \in Pairs :
            /\ hist[i] = Ev("live", "false") => hist[i + 1] = Ev("retry", "interval")
            /\ hist[i] = Ev("live", "true") => hist[i + 1].ev = "session"
            /\ hist[i + 1].ev = "session" => hist[i] = Ev("live", "true")
        /\ (Len(hist) > 0 /\ Last = Ev("live", "false")) =>
                \/ pc = "auto_except" /\ exc = "UserLiveError"
                \/ pc = "cancelled"
        /\ (Len(hist) > 0 /\ Last = Ev("live", "true")) => pc = "start_recording"
        /\ counts.sessions = counts.live_true - (IF pc = "start_recording" THEN 1 ELSE 0)
        /\ counts.interval_sleeps >=
              counts.live_false - (IF pc \in {"auto_except", "cancelled"} THEN 1 ELSE 0)

\* C2 witness: liveness was false, false, true; two sleeps and one Session.
C2_Witness ==
    /\ mode = "AUTOMATIC"
    /\ iters = 3
    /\ counts = [live_true |-> 1, live_false |-> 2, sessions |-> 1, interval_sleeps |-> 2]
    /\ Last.ev = "session"
    /\ pc = "auto_loop"

\* The TikTokError a blocked country raises in mode m.
ModeSpecific(m) ==
    IF m = "AUTOMATIC" THEN "COUNTRY_BLACKLISTED_AUTO_MODE"
    ELSE "COUNTRY_BLACKLISTED_FOLLOWERS_MODE"

NothingBegan ==
    /\ hist = <<>>
    /\ counts = NoCounts
    /\ iters = 0
    /\ sweeps = 0
    /\ procs = <<>>

\* C3 as stated: a blocked country in Automatic (Followers) mode aborts startup
\* with the Automatic-specific (Followers-specific) error, however the target
\* was supplied, and nothing begins.
C3_Original ==
    (country = "true" /\ mode \in {"AUTOMATIC", "FOLLOWERS"}) =>
        /\ pc = "aborted"
        /\ error = ModeSpecific(mode)
        /\ NothingBegan

\* C3 as amended: a blocked country in Automatic (Followers) mode always aborts
\* startup and nothing begins; the error is the mode-specific one when a room
\* id was supplied and the generic COUNTRY_BLACKLISTED one when it was not.
C3_BlockedAborts ==
    (country = "true" /\ mode \in {"AUTOMATIC", "FOLLOWERS"}) =>
        /\ pc = "aborted"
        /\ error = IF supplied = "room_id" THEN ModeSpecific(mode)
                   ELSE "COUNTRY_BLACKLISTED"
        /\ NothingBegan

\* C3 witness: Automatic mode, room id supplied, country blocked.
C3_Witness ==
    /\ country = "true"
    /\ mode = "AUTOMATIC"
    /\ supplied = "room_id"
    /\ pc = "aborted"
    /\ error = "COUNTRY_BLACKLISTED_AUTO_MODE"

\* C4 as stated: a blocked country in Manual mode aborts startup whether or
\* not a room id was supplied, and no liveness check or Session is run.
C4_ManualBlockedAborts ==
    (country = "true" /\ mode = "MANUAL") => (pc = "aborted" /\ NothingBegan)

\* C5: in Manual mode there is at most one liveness check and no loop; when the
\* run is over one Session was run if the check returned true and none
\* otherwise, and a false check ends the run with UserLiveError.
C5_ManualOneShot ==
    mode = "MANUAL" =>
        /\ counts.live_true + counts.live_false <= 1
        /\ counts.sessions <= counts.live_true
        /\ counts.interval_sleeps = 0 /\ iters = 0
        /\ \A i \in DOMAIN hist : hist[i].ev # "retry"
        /\ Finished => counts.sessions = counts.live_true
        /\ counts.live_false = 1 =>
              (pc = "failed" /\ error = "UserLiveError" /\ counts.sessions = 0)
        /\ pc = "done" => counts.sessions = 1

\* C5 witness: target given by room id only, username resolved, room live,
\* one Session run and the run over.
C5_Witness ==
    /\ mode = "MANUAL"
    /\ supplied = "room_id"
    /\ user = "alice"
    /\ counts.live_true = 1
    /\ counts.sessions = 1
    /\ pc = "done"

SessionFailures == {"LiveStreamUnavailable", "ConnectionClosed", "Cancelled",
                    "UnexpectedError"}

\* C6 as stated: in Manual mode a Session that ended in a failure kind makes
\* the run report that failure, so its caller can tell it from success.
C6_SessionFailureSurfaces ==
    (mode = "MANUAL" /\ Finished /\ last_session.outcome \in SessionFailures) =>
        (pc # "done" /\ error # "none")

\* C7 as stated: in Automatic mode an attempt that ended in
\* LiveStreamUnavailable is followed by the automatic_interval sleep before the
\* next room resolution.
C7_UnavailableThenSleep ==
    mode = "AUTOMATIC" =>
        \A i \in Pairs :
            hist[i] = Ev("session", "LiveStreamUnavailable")
                => hist[i + 1] = Ev("retry", "interval")

\* C8 as stated: in Automatic mode a connection-closed condition, raised while
\* resolving the room, checking liveness or during the Session, is followed by
\* the cooldown sleep before the next attempt.
C8_ConnectionClosedThenCooldown ==
    mode = "AUTOMATIC" =>
        \A i \in Pairs :
            (hist[i] = Ev("raise", "ConnectionError")
             \/ hist[i] = Ev("session", "ConnectionClosed"))
                => hist[i + 1] = Ev("retry", "cooldown")

C10_FinishedEntriesRemoved ==
    (mode = "FOLLOWERS" /\ SweepOver) =>
        \A f \in DOMAIN active_recordings : active_recordings[f] \notin doneAtFetch

\* Follower g has the same registry entry, or none, before and after a step.
SameEntry(g) ==
    /\ (g \in DOMAIN active_recordings') = (g \in DOMAIN active_recordings)
    /\ g \in DOMAIN active_recordings => active_recordings'[g] = active_recordings[g]

\* C11: an exception raised while a follower is processed ends only that
\* follower's iteration: the for loop goes on to the next follower, no Process
\* and no other follower's registry entry changes, every follower of the list
\* has been processed when the sweep is over, and the sweep ends in the
\* automatic_interval sleep.
C11_FollowerErrorIsolated ==
    /\ [](mode = "FOLLOWERS" /\ SweepOver =>
            /\ Len(sweepLog) = Len(followers)
            /\ \A i \in DOMAIN sweepLog : sweepLog[i].follower = followers[i])
    /\ [][(/\ mode = "FOLLOWERS"
           /\ pc = "fol_sweep"
           /\ Len(sweepLog') = Len(sweepLog) + 1
           /\ sweepLog'[Len(sweepLog')].res = "error")
          => (/\ pc' = "fol_sweep"
              /\ idx' = idx + 1
              /\ procs' = procs
              /\ \A g \in Followers \ {followers[idx]} : SameEntry(g))]_vars
    /\ [][(mode = "FOLLOWERS" /\ pc = "fol_sweep" /\ pc' = "fol_loop")
          => lastSleep' = "interval"]_vars

\* C11 witness: a sweep is over in which the first follower raised and the
\* second one got its unit.
C11_Witness ==
    /\ mode = "FOLLOWERS"
    /\ SweepOver
    /\ Len(sweepLog) = 2
    /\ sweepLog[1].res = "error"
    /\ sweepLog[2].res = "started"

\* C12: whatever the Session units do (none of them need ever end), a sweep
\* that has begun reaches the end of the follower list, then ends, and a later
\* sweep begins, unless the loop is cancelled.
C12_SweepNeverWaits ==
    /\ (mode = "FOLLOWERS" /\ pc = "fol_sweep") ~> (SweepOver \/ pc = "cancelled")
    /\ (mode = "FOLLOWERS" /\ SweepOver) ~> (pc \in {"fol_loop", "cancelled"})
    /\ (mode = "FOLLOWERS" /\ pc = "fol_loop" /\ sweeps < MaxSweeps)
          ~> (pc \in {"fol_sweep", "fol_except", "cancelled"})

\* C12 witness: a second sweep is over and has started a unit for a follower
\* while a unit of an earlier sweep is still running.
C12_Witness ==
    /\ mode = "FOLLOWERS"
    /\ SweepOver
    /\ sweeps = 2
    /\ \E p \in 1..procsAtFetch : procs[p].state = "running"
    /\ \E q \in (procsAtFetch + 1)..Len(procs) :
          \A p \in 1..procsAtFetch : procs[q].user # procs[p].user

CancelKinds == {"cancelled", "started_cancelled"}

\* The cancellation signal has been delivered to the sweep loop.
CancelDelivered ==
    \/ pc = "cancelled"
    \/ \E i \in DOMAIN sweepLog : sweepLog[i].res \in CancelKinds

\* C13: in Followers mode, once the cancellation signal has been delivered to
\* the sweep loop no Process is created any more and the loop stays ended.
C13_NoSpawnAfterCancel ==
    [][(mode = "FOLLOWERS" /\ CancelDelivered)
        => (Len(procs') = Len(procs) /\ pc' = "cancelled" /\ pc = "cancelled")]_vars

\* C13 witness: the loop was cancelled during a follower's liveness check with
\* a follower of the list still to come.
C13_Witness ==
    /\ mode = "FOLLOWERS"
    /\ pc = "cancelled"
    /\ idx < Len(followers)
    /\ Len(sweepLog) = idx
    /\ sweepLog[idx].res = "cancelled"

\* C14 as stated: in Automatic mode a cancellation delivered while a Session
\* is recording ends the Session as Cancelled and stops the scheduler: the
\* run is over and nothing follows the Session.
C14_CancelStopsAutomatic ==
    mode = "AUTOMATIC" =>
        /\ \A i \in Pairs : hist[i] # Ev("session", "Cancelled")
        /\ (Len(hist) > 0 /\ Last = Ev("session", "Cancelled")) => pc = "cancelled"

\* C15: a failed conversion or upload leaves the Session a success that
\* raises nothing and returns to its caller like any other; the upload is
\* attempted after a successful recording exactly when use_telegram is set,
\* whether or not the conversion failed.
C15_PostProcessingContained ==
    /\ (last_session.conversion = "failed" \/ last_session.delivery = "failed") =>
          (last_session.outcome = "success" /\ last_session.raised = "none")
    /\ last_session.outcome = "success" =>
          /\ last_session.conversion \in PostOutcomes
          /\ last_session.delivery \in (IF use_telegram THEN PostOutcomes ELSE {"skipped"})
    /\ last_session.delivery \in PostOutcomes => use_telegram
    /\ (Len(hist) > 0 /\ Last = Ev("session", "success")) =>
          /\ pc = IF mode = "MANUAL" THEN "done" ELSE "auto_loop"
          /\ exc = "none"
          /\ error = "none"

\* C15 witness: the conversion failed, the upload was still made, and the
\* Manual run ended normally.
C15_Witness ==
    /\ use_telegram
    /\ last_session.conversion = "failed"
    /\ last_session.delivery = "ok"
    /\ mode = "MANUAL"
    /\ pc = "done"
    /\ error = "none"

\* C17 as stated: a transient network failure during streaming does not end
\* the Session.
C17_TransientDoesNotEndSession ==
    last_session.outcome # "TransientNetworkError"

AutomaticRunning == {"auto_loop", "manual_mode", "start_recording", "auto_except"}

\* C18: once run() has begun, Automatic mode ends only by cancellation; a
\* Session that returned and every sleep are followed by the next room
\* resolution, every exception is followed by its except clause, an unexpected
\* one by an immediate retry; and from every point of an iteration the loop
\* comes back to its start.
C18_AutomaticNeverEnds ==
    /\ [](mode = "AUTOMATIC" =>
            /\ pc \notin {"done", "failed"}
            /\ pc = "cancelled" => error = KI
            /\ \A i \in Pairs :
                /\ hist[i].ev \in {"session", "retry"} =>
                      hist[i + 1].ev \in {"resolve", "raise"}
                /\ (hist[i].ev = "raise" /\ hist[i].arg # KI) => hist[i + 1].ev = "retry"
                /\ hist[i] = Ev("raise", "Exception") =>
                      hist[i + 1] = Ev("retry", "immediate")
            /\ (Len(hist) > 0 /\ Last.ev \in {"session", "retry"}) => pc = "auto_loop")
    /\ (mode = "AUTOMATIC" /\ pc \in AutomaticRunning)
          ~> (pc \in {"auto_loop", "cancelled"})
    /\ (mode = "AUTOMATIC" /\ pc = "auto_loop" /\ iters < MaxIters)
          ~> (pc \in {"manual_mode", "auto_except", "cancelled"})

\* C18 witness: an unexpected failure, an immediate retry, and the room
\* resolved again.
C18_Witness ==
    /\ mode = "AUTOMATIC"
    /\ Len(hist) >= 3
    /\ hist[Len(hist) - 2] = Ev("raise", "Exception")
    /\ hist[Len(hist) - 1] = Ev("retry", "immediate")
    /\ Last = Ev("resolve", "returned")
    /\ pc = "manual_mode"

CountryErrors == {"COUNTRY_BLACKLISTED", "COUNTRY_BLACKLISTED_AUTO_MODE",
                  "COUNTRY_BLACKLISTED_FOLLOWERS_MODE"}

\* C20: when the country-block query raises, the country check raises nothing
\* in any mode, and the constructor goes on to the resolution as it does when
\* the query returns false.
C20_FailedQueryNotBlocked ==
    /\ [](country = "raises" => (pc # "construct" /\ error \notin CountryErrors))
    /\ [][(pc = "construct" /\ country' \in {"raises", "false"})
          => (pc' = "resolve" /\ error' = "none")]_vars

\* C20 witness: no room id supplied, the query raised, and the Manual run
\* went through to its end.
C20_Witness ==
    /\ country = "raises"
    /\ mode = "MANUAL"
    /\ supplied = "url"
    /\ pc = "done"

\* C16 as stated: distinct Sessions get distinct output paths; in particular a
\* Session of the main flow that records to its end built its path from a
\* second that no earlier Session of the same user had put into its path.
C16_DistinctPaths ==
    [][(pc = "start_recording" /\ pc' # "start_recording"
            /\ last_session'.outcome = "success")
       => current_date = "new"]_vars

\* C19: a Session of the main flow begins only from the state a positive
\* liveness check leaves, with the room id that check was made for and no
\* other Session or resolution in between; every Process of Followers mode
\* was started for a room id for which is_room_alive had just returned true.
C19_SessionOnlyAfterLiveCheck ==
    /\ [](/\ pc = "start_recording" => (Len(hist) > 0 /\ Last = Ev("live", "true"))
          /\ \A i \in Pairs : hist[i + 1].ev = "session" => hist[i] = Ev("live", "true")
          /\ (Len(hist) > 0 /\ hist[1].ev = "session") => Len(hist) = HistLen
          /\ counts.sessions <= counts.live_true
          /\ \A p \in DOMAIN procs : procs[p].verified)
    /\ [][(pc' = "start_recording" /\ pc # "start_recording")
          => (pc = "manual_mode" /\ room_id' = room_id /\ user' = user)]_vars
    /\ [][pc = "start_recording" => (room_id' = room_id /\ user' = user)]_vars

\* C19 witness: Automatic mode has run two Sessions, each right after its own
\* positive liveness check.
C19_Witness ==
    /\ mode = "AUTOMATIC"
    /\ counts.sessions = 2
    /\ counts.live_true = 2
    /\ Len(hist) >= 2
    /\ Last.ev = "session"
    /\ hist[Len(hist) - 1] = Ev("live", "true")

====
